---- MODULE Spec2Model ----
(***************************************************************************)
(* sec-store: an in-memory map from hashed keys to AEAD-sealed values.     *)
(*                                                                         *)
(* The store (src/src/lib.rs) and its encryption manager (src/src/enc.rs)  *)
(* are modelled as operators over byte buffers; the actions apply them to  *)
(* one live Store and record the call, its result and the caller's buffer. *)
(*                                                                         *)
(* The primitives of the `ring` and `xxhash_rust` crates are modelled      *)
(* symbolically: a sealed buffer remembers the key, the nonce and the      *)
(* plaintext it was sealed from, and opens only under that key and nonce.  *)
(***************************************************************************)
EXTENDS Integers, Sequences, FiniteSets, TLC

VARIABLES
    inner,   \* Store.inner: BTreeMap<u128, Vec<u8>>, a function on its hashed keys
    enc,     \* Store.enc: the Manager (its 32-byte key)
    alive,   \* FALSE once an assertion of the code has panicked
    op,      \* the call that has just returned and its arguments, if the
             \* caller still holds its result
    ret,     \* what the last call returned
    dest,    \* the caller's destination buffer after the last call
    prev,    \* Store.inner as it was when the last call started
    cred,    \* the <<user, pass>> the live Store was constructed from
    written, \* per logical key, the last value the callers were told is stored
             \* and the credentials it was inserted under
    target   \* the byte order of the machine the crate is built for

vars == <<inner, enc, alive, op, ret, dest, prev, cred, written, target>>

----------------------------------------------------------------------------
(* Bounds of the model. *)

\* The values handed to insert are 0..MaxValLen bytes long.
MaxValLen == 2

----------------------------------------------------------------------------
(* Program constants. *)

\* The tag CHACHA20_POLY1305 appends to a sealed buffer, in bytes.
TAG_LEN == 16

\* The bytes of a nonce: get_nonce keeps input[0..=11].
NONCE_LEN == 12

\* The bytes of a u128.
U128_LEN == 16

\* The byte a caller's destination buffer is filled with: [0; 1024] in the test.
DEST_FILL == 0

\* tests/store.rs: USER = b"loli", PASS = b"pass", and the altered b"WRONG".
USER == <<108, 111, 108, 105>>
PASS == <<112, 97, 115, 115>>
WRONG == <<87, 82, 79, 78, 71>>

\* The logical keys of the test: b"1" and b"2".
Keys == {<<49>>, <<50>>}

\* The credential pairs given to Store::new / Store::from_inner: the test's
\* three pairs, and the two pairs with one empty part.
CredInputs ==
    {<<USER, PASS>>, <<USER, WRONG>>, <<WRONG, PASS>>, <<<<>>, PASS>>, <<USER, <<>>>>}

----------------------------------------------------------------------------
(* Bytes and buffers.  A byte of a buffer is either a plain byte or one    *)
(* byte of a sealed buffer; both are records of the same shape.            *)

NoKey == <<<<>>, <<>>>>

\* A plain byte of value b.
Plain(b) == [k |-> NoKey, n |-> <<>>, pt |-> <<>>, i |-> b]

\* Byte i of the buffer that sealing pt under key k and nonce n produces.
Sealed(k, n, pt, i) == [k |-> k, n |-> n, pt |-> pt, i |-> i]

\* A buffer of n fill bytes.
Filled(n) == [i \in 1..n |-> Plain(DEST_FILL)]

Take(s, n) == SubSeq(s, 1, n)

Skip(s, n) == SubSeq(s, n + 1, Len(s))

\* The buffer holding the plain bytes bs.
Bytes(bs) == [i \in 1..Len(bs) |-> Plain(bs[i])]

\* The values a caller inserts: the heads of the test's two values b"pass"
\* and b"loli", the empty one included.
Values == {Bytes(Take(v, n)) : v \in {PASS, USER}, n \in 0..MaxValLen}

\* The fixed-size destinations of get_to / remove_to: around the plaintext
\* lengths and around the sealed lengths.
DestLens == (0..MaxValLen) \cup (TAG_LEN..(TAG_LEN + MaxValLen + 1))

Dests == {Filled(n) : n \in DestLens}

\* The growable destinations of get_to_vec / remove_to_vec: a fresh Vec and
\* one holding more stale bytes than any value has.
VecDests == {Filled(0), Filled(MaxValLen + 1)}

\* What a failed open_in_place leaves in the buffer: the sealed bytes as they
\* were, or the would-be plaintext zeroed.
Garbles == {"kept", "zeroed"}

----------------------------------------------------------------------------
(* Option<Vec<u8>>, Result<usize, ()>, bool and a panic, in one shape. *)

None == [tag |-> "None", n |-> 0, val |-> <<>>]

Some(v) == [tag |-> "Some", n |-> 0, val |-> v]

Ok(n) == [tag |-> "Ok", n |-> n, val |-> <<>>]

Err == [tag |-> "Err", n |-> 0, val |-> <<>>]

Bool(b) == [tag |-> IF b THEN "true" ELSE "false", n |-> 0, val |-> <<>>]

Unit == [tag |-> "unit", n |-> 0, val |-> <<>>]

Panic == [tag |-> "panic", n |-> 0, val |-> <<>>]

----------------------------------------------------------------------------
(* src/src/enc.rs *)

\* Variant of generate_key: the salt is left out of the derivation.
generate_key_nosalt(salt, pass) == <<<<>>, pass>>

\* pbkdf2::derive(PBKDF2_HMAC_SHA512, IT, salt, pass): a key that is a
\* function of (salt, pass) and differs when either differs.
generate_key(salt, pass) == <<salt, pass>>

\* Manager::new
Manager_new(key) == key

\* A u128 is held as its 16 bytes, least significant first.
Reverse(s) == [i \in 1..Len(s) |-> s[Len(s) + 1 - i]]

\* u128::to_ne_bytes: the bytes in memory order, least significant first on
\* a little-endian machine and most significant first on a big-endian one.
to_ne_bytes(input) == IF target = "little" THEN input ELSE Reverse(input)

\* Variant of get_nonce: the last twelve bytes, input[4] .. input[15], are
\* kept instead of the first twelve.
get_nonce_tail(input) == Skip(to_ne_bytes(input), U128_LEN - NONCE_LEN)

\* Manager::get_nonce: input[0] .. input[11] of the native-endian bytes.
get_nonce(input) == Take(to_ne_bytes(input), NONCE_LEN)

\* seal_in_place_append_tag: the plaintext sealed in place, the tag appended.
seal_in_place_append_tag(key, nonce, in_out) ==
    [i \in 1..(Len(in_out) + TAG_LEN) |-> Sealed(key, nonce, in_out, i)]

\* Variant of encrypt: the nonce input is ignored and every buffer is sealed
\* under the all-zero nonce.
encrypt_zero_nonce(key, nonce, in_out) ==
    [ok |-> TRUE,
     buf |-> seal_in_place_append_tag(key, [i \in 1..NONCE_LEN |-> 0], in_out)]

\* Manager::encrypt: TRUE and the sealed buffer (UnboundKey::new accepts every
\* 32-byte key).
encrypt(key, nonce, in_out) ==
    [ok |-> TRUE, buf |-> seal_in_place_append_tag(key, get_nonce(nonce), in_out)]

\* open_in_place: the buffer authenticates when it is, whole, what sealing some
\* plaintext under this key and nonce produced; then the plaintext is written
\* over its head and the tag stays behind it.  Otherwise the buffer is left
\* as g says.
open_in_place(key, nonce, in_out, g) ==
    IF Len(in_out) < TAG_LEN
    THEN [ok |-> FALSE, len |-> 0, buf |-> in_out]
    ELSE LET pt == in_out[Len(in_out)].pt
         IN  IF in_out = seal_in_place_append_tag(key, nonce, pt)
             THEN [ok |-> TRUE, len |-> Len(pt), buf |-> pt \o Skip(in_out, Len(pt))]
             ELSE [ok |-> FALSE, len |-> 0,
                   buf |-> IF g = "zeroed"
                           THEN [i \in 1..(Len(in_out) - TAG_LEN) |-> Plain(0)]
                                    \o Skip(in_out, Len(in_out) - TAG_LEN)
                           ELSE in_out]

\* Manager::decrypt: Some(written) as ok with written.len(), None as ~ok.
decrypt(key, nonce, in_out, g) == open_in_place(key, get_nonce(nonce), in_out, g)

----------------------------------------------------------------------------
(* src/src/lib.rs *)

\* xxh3_128: a 128-bit digest, distinct for distinct keys of the model.
xxh3_128(key) ==
    [i \in 1..U128_LEN |->
        IF i <= Len(key) THEN (key[i] * 167 + 13 * i) % 256
        ELSE (Len(key) * 31 + 7 * i) % 256]

\* u128::to_le: the value itself on a little-endian machine, its bytes
\* swapped on a big-endian one.
to_le(x) == IF target = "little" THEN x ELSE Reverse(x)

\* BTreeMap::insert / BTreeMap::remove
MapInsert(m, h, v) == [x \in (DOMAIN m) \cup {h} |-> IF x = h THEN v ELSE m[x]]

MapRemove(m, h) == [x \in (DOMAIN m) \ {h} |-> m[x]]

EmptyMap == [x \in {} |-> <<>>]

\* Variant of from_inner: the supplied map is dropped, as Store::new does.
from_inner_fresh(m, user, pass) ==
    IF Len(user) = 0 \/ Len(pass) = 0
    THEN [panic |-> TRUE, inner |-> m, enc |-> NoKey]
    ELSE [panic |-> FALSE, inner |-> EmptyMap,
          enc |-> Manager_new(generate_key(user, pass))]

\* Variant of from_inner: the entries that do not open under the new key are
\* purged from the supplied map.
from_inner_purge(m, user, pass) ==
    IF Len(user) = 0 \/ Len(pass) = 0
    THEN [panic |-> TRUE, inner |-> m, enc |-> NoKey]
    ELSE LET e == Manager_new(generate_key(user, pass))
             keep == {h \in DOMAIN m : decrypt(e, h, m[h], "kept").ok}
         IN  [panic |-> FALSE, inner |-> [h \in keep |-> m[h]], enc |-> e]

\* Store::from_inner (Store::new is from_inner of the empty map).
from_inner(m, user, pass) ==
    IF Len(user) = 0 \/ Len(pass) = 0
    THEN [panic |-> TRUE, inner |-> m, enc |-> NoKey]
    ELSE [panic |-> FALSE, inner |-> m, enc |-> Manager_new(generate_key(user, pass))]

\* Store::into_inner
into_inner(m) == m

\* Store::len
len(m) == Cardinality(DOMAIN m)

\* Variant of inner_get_to: the space check is `>=`, so a destination exactly
\* as long as the stored value is refused too.
inner_get_to_off_by_one(m, e, key, d, g) ==
    IF key \in DOMAIN m
    THEN LET value == m[key]
         IN  IF Len(value) >= Len(d)
             THEN [ret |-> Ok(0), dest |-> d]
             ELSE LET r == decrypt(e, key, value, g)
                  IN  [ret |-> IF r.ok THEN Ok(r.len) ELSE Err,
                       dest |-> r.buf \o Skip(d, Len(value))]
    ELSE [ret |-> Err, dest |-> d]

\* Store::inner_get_to
inner_get_to(m, e, key, d, g) ==
    IF key \in DOMAIN m
    THEN LET value == m[key]
         IN  IF Len(value) > Len(d)
             THEN [ret |-> Ok(0), dest |-> d]
             ELSE LET r == decrypt(e, key, value, g)
                  IN  [ret |-> IF r.ok THEN Ok(r.len) ELSE Err,
                       dest |-> r.buf \o Skip(d, Len(value))]
    ELSE [ret |-> Err, dest |-> d]

\* Variant of inner_get_to_vec: dest.truncate(len) is left out, so the tag
\* stays in dest.
inner_get_to_vec_untruncated(m, e, key, d, g) ==
    IF key \in DOMAIN m
    THEN LET r == decrypt(e, key, m[key], g)
         IN  IF r.ok
             THEN [ret |-> Ok(r.len), dest |-> r.buf]
             ELSE [ret |-> Err, dest |-> r.buf]
    ELSE [ret |-> Err, dest |-> d]

\* Variant of inner_get_to_vec: dest is emptied before the key is looked up.
inner_get_to_vec_clear_first(m, e, key, d, g) ==
    IF key \in DOMAIN m
    THEN LET r == decrypt(e, key, m[key], g)
         IN  IF r.ok
             THEN [ret |-> Ok(r.len), dest |-> Take(r.buf, r.len)]
             ELSE [ret |-> Err, dest |-> r.buf]
    ELSE [ret |-> Err, dest |-> <<>>]

\* Store::inner_get_to_vec
inner_get_to_vec(m, e, key, d, g) ==
    IF key \in DOMAIN m
    THEN LET r == decrypt(e, key, m[key], g)
         IN  IF r.ok
             THEN [ret |-> Ok(r.len), dest |-> Take(r.buf, r.len)]
             ELSE [ret |-> Err, dest |-> r.buf]
    ELSE [ret |-> Err, dest |-> d]

\* Store::get_to
get_to(m, e, key, d, g) ==
    LET r == inner_get_to(m, e, to_le(xxh3_128(key)), d, g)
    IN  [inner |-> m, ret |-> r.ret, dest |-> r.dest]

\* Store::get_to_vec
get_to_vec(m, e, key, d, g) ==
    LET r == inner_get_to_vec(m, e, to_le(xxh3_128(key)), d, g)
    IN  [inner |-> m, ret |-> r.ret, dest |-> r.dest]

\* Store::get
get(m, e, key, g) ==
    LET r == get_to_vec(m, e, key, <<>>, g)
    IN  [inner |-> m, ret |-> IF r.ret.tag = "Ok" THEN Some(r.dest) ELSE None]

\* Variant of insert_owned: an existing entry is kept (entry().or_insert)
\* instead of being replaced.
insert_owned_keep_first(m, e, key, value) ==
    IF Len(value) = 0
    THEN [panic |-> TRUE, inner |-> m, ret |-> Panic]
    ELSE LET h == to_le(xxh3_128(key))
             sealed == encrypt(e, h, value)
         IN  [panic |-> FALSE,
              inner |-> IF h \in DOMAIN m THEN m ELSE MapInsert(m, h, sealed.buf),
              ret |-> IF h \in DOMAIN m
                      THEN LET r == decrypt(e, h, m[h], "kept")
                           IN  IF r.ok THEN Some(Take(r.buf, r.len)) ELSE None
                      ELSE None]

\* Variant of insert_owned: the old entry is decrypted first and the insert is
\* given up when it does not open.
insert_owned_guarded(m, e, key, value) ==
    IF Len(value) = 0
    THEN [panic |-> TRUE, inner |-> m, ret |-> Panic]
    ELSE LET h == to_le(xxh3_128(key))
             sealed == encrypt(e, h, value)
             old == IF h \in DOMAIN m
                    THEN decrypt(e, h, m[h], "kept")
                    ELSE [ok |-> TRUE, len |-> 0, buf |-> <<>>]
         IN  [panic |-> FALSE,
              inner |-> IF old.ok THEN MapInsert(m, h, sealed.buf) ELSE m,
              ret |-> IF h \in DOMAIN m /\ old.ok
                      THEN Some(Take(old.buf, old.len))
                      ELSE None]

\* Variant of insert_owned: the value is checked for emptiness only after it
\* has been sealed and put in the map.
insert_owned_late_assert(m, e, key, value) ==
    LET h == to_le(xxh3_128(key))
        sealed == encrypt(e, h, value)
    IN  IF Len(value) = 0 \/ ~sealed.ok
        THEN [panic |-> TRUE, inner |-> MapInsert(m, h, sealed.buf), ret |-> Panic]
        ELSE [panic |-> FALSE,
              inner |-> MapInsert(m, h, sealed.buf),
              ret |-> IF h \in DOMAIN m
                      THEN LET r == decrypt(e, h, m[h], "kept")
                           IN  IF r.ok THEN Some(Take(r.buf, r.len)) ELSE None
                      ELSE None]

\* Variant of insert_owned: the assertion on the value's length is missing.
insert_owned_allow_empty(m, e, key, value) ==
    LET h == to_le(xxh3_128(key))
        sealed == encrypt(e, h, value)
    IN  IF ~sealed.ok
        THEN [panic |-> TRUE, inner |-> m, ret |-> Panic]
        ELSE [panic |-> FALSE,
              inner |-> MapInsert(m, h, sealed.buf),
              ret |-> IF h \in DOMAIN m
                      THEN LET r == decrypt(e, h, m[h], "kept")
                           IN  IF r.ok THEN Some(Take(r.buf, r.len)) ELSE None
                      ELSE None]

\* Variant of insert_owned: the nonce input is a hash of the key and of the
\* value's length, fresh for a value of another length.
insert_owned_fresh_nonce(m, e, key, value) ==
    IF Len(value) = 0
    THEN [panic |-> TRUE, inner |-> m, ret |-> Panic]
    ELSE LET h == to_le(xxh3_128(key))
             sealed == encrypt(e, to_le(xxh3_128(key \o <<Len(value)>>)), value)
         IN  [panic |-> FALSE,
              inner |-> MapInsert(m, h, sealed.buf),
              ret |-> IF h \in DOMAIN m
                      THEN LET r == decrypt(e, h, m[h], "kept")
                           IN  IF r.ok THEN Some(Take(r.buf, r.len)) ELSE None
                      ELSE None]

\* Store::insert_owned
insert_owned(m, e, key, value) ==
    IF Len(value) = 0
    THEN [panic |-> TRUE, inner |-> m, ret |-> Panic]
    ELSE LET h == to_le(xxh3_128(key))
             sealed == encrypt(e, h, value)
         IN  IF ~sealed.ok
             THEN [panic |-> TRUE, inner |-> m, ret |-> Panic]
             ELSE [panic |-> FALSE,
                   inner |-> MapInsert(m, h, sealed.buf),
                   ret |-> IF h \in DOMAIN m
                           THEN LET r == decrypt(e, h, m[h], "kept")
                                IN  IF r.ok THEN Some(Take(r.buf, r.len)) ELSE None
                           ELSE None]

\* Store::insert
insert(m, e, key, value) == insert_owned(m, e, key, value)

\* Variant of remove_to: the Ok(0) arm is missing, so every Ok removes.
remove_to_any_ok(m, e, key, d, g) ==
    LET h == to_le(xxh3_128(key))
        r == inner_get_to(m, e, h, d, g)
    IN  IF r.ret.tag = "Ok"
        THEN [inner |-> MapRemove(m, h), ret |-> r.ret, dest |-> r.dest]
        ELSE [inner |-> m, ret |-> Err, dest |-> r.dest]

\* Variant of remove_to: the entry is read and never removed.
remove_to_no_remove(m, e, key, d, g) ==
    LET h == to_le(xxh3_128(key))
        r == inner_get_to(m, e, h, d, g)
    IN  [inner |-> m, ret |-> r.ret, dest |-> r.dest]

\* Store::remove_to
remove_to(m, e, key, d, g) ==
    LET h == to_le(xxh3_128(key))
        r == inner_get_to(m, e, h, d, g)
    IN  IF r.ret.tag = "Ok" /\ r.ret.n = 0
        THEN [inner |-> m, ret |-> Ok(0), dest |-> r.dest]
        ELSE IF r.ret.tag = "Ok"
        THEN [inner |-> MapRemove(m, h), ret |-> r.ret, dest |-> r.dest]
        ELSE [inner |-> m, ret |-> Err, dest |-> r.dest]

\* Variant of remove_to_vec: the entry is taken out of the map first and
\* decrypted afterwards.
remove_to_vec_eager(m, e, key, d, g) ==
    LET h == to_le(xxh3_128(key))
        r == inner_get_to_vec(m, e, h, d, g)
    IN  [inner |-> MapRemove(m, h), ret |-> r.ret, dest |-> r.dest]

\* Store::remove_to_vec
remove_to_vec(m, e, key, d, g) ==
    LET h == to_le(xxh3_128(key))
        r == inner_get_to_vec(m, e, h, d, g)
    IN  IF r.ret.tag = "Ok"
        THEN [inner |-> MapRemove(m, h), ret |-> r.ret, dest |-> r.dest]
        ELSE [inner |-> m, ret |-> Err, dest |-> r.dest]

\* Variant of remove: get_to_vec is called where remove_to_vec is meant.
remove_by_get(m, e, key, g) ==
    LET r == get_to_vec(m, e, key, <<>>, g)
    IN  [inner |-> m, ret |-> IF r.ret.tag = "Ok" THEN Some(r.dest) ELSE None]

\* Store::remove
remove(m, e, key, g) ==
    LET r == remove_to_vec(m, e, key, <<>>, g)
    IN  [inner |-> r.inner, ret |-> IF r.ret.tag = "Ok" THEN Some(r.dest) ELSE None]

\* Variant of remove_key: the entry is removed only when it decrypts.
remove_key_checked(m, e, key) ==
    LET h == to_le(xxh3_128(key))
        readable == h \in DOMAIN m /\ decrypt(e, h, m[h], "kept").ok
    IN  [inner |-> IF readable THEN MapRemove(m, h) ELSE m, ret |-> Bool(h \in DOMAIN m)]

\* Store::remove_key
remove_key(m, e, key) ==
    LET h == to_le(xxh3_128(key))
    IN  [inner |-> MapRemove(m, h), ret |-> Bool(h \in DOMAIN m)]

----------------------------------------------------------------------------
(* The calls a program makes on one Store. *)

Call(name, key, value, d, user, pass) ==
    [name |-> name, key |-> key, value |-> value, dest |-> d, user |-> user, pass |-> pass]

NoCall == Call("none", <<>>, <<>>, <<>>, <<>>, <<>>)

\* The store is live and the caller holds no result of an earlier call.
Idle == alive /\ op.name = "none"

Targets == {"little", "big"}

\* let store = Store::new(user, pass)
Init ==
    /\ target \in Targets
    /\ \E c \in CredInputs :
           LET s == from_inner(EmptyMap, c[1], c[2])
           IN  /\ inner = s.inner
               /\ enc = s.enc
               /\ alive = ~s.panic
               /\ op = Call("new", <<>>, <<>>, <<>>, c[1], c[2])
               /\ ret = IF s.panic THEN Panic ELSE Unit
               /\ dest = <<>>
               /\ prev = EmptyMap
               /\ cred = c
               /\ written = EmptyMap

\* store.insert(key, value)
Insert ==
    /\ Idle
    /\ \E key \in Keys, value \in Values :
        LET r == insert(inner, enc, key, value)
        IN  /\ inner' = r.inner
            /\ alive' = ~r.panic
            /\ op' = Call("insert", key, value, <<>>, <<>>, <<>>)
            /\ ret' = r.ret
            /\ dest' = <<>>
            /\ written' = IF r.panic THEN written
                          ELSE MapInsert(written, key, [cred |-> cred, value |-> value])
    /\ prev' = inner
    /\ UNCHANGED <<enc, cred, target>>

\* store.get(key)
Get ==
    /\ Idle
    /\ \E key \in Keys, g \in Garbles :
        LET r == get(inner, enc, key, g)
        IN  /\ inner' = r.inner
            /\ op' = Call("get", key, <<>>, <<>>, <<>>, <<>>)
            /\ ret' = r.ret
            /\ dest' = <<>>
    /\ prev' = inner
    /\ UNCHANGED <<enc, alive, cred, written, target>>

\* store.get_to(key, &mut dest)
GetTo ==
    /\ Idle
    /\ \E key \in Keys, d \in Dests, g \in Garbles :
        LET r == get_to(inner, enc, key, d, g)
        IN  /\ inner' = r.inner
            /\ op' = Call("get_to", key, <<>>, d, <<>>, <<>>)
            /\ ret' = r.ret
            /\ dest' = r.dest
    /\ prev' = inner
    /\ UNCHANGED <<enc, alive, cred, written, target>>

\* store.get_to_vec(key, &mut dest)
GetToVec ==
    /\ Idle
    /\ \E key \in Keys, d \in VecDests, g \in Garbles :
        LET r == get_to_vec(inner, enc, key, d, g)
        IN  /\ inner' = r.inner
            /\ op' = Call("get_to_vec", key, <<>>, d, <<>>, <<>>)
            /\ ret' = r.ret
            /\ dest' = r.dest
    /\ prev' = inner
    /\ UNCHANGED <<enc, alive, cred, written, target>>

\* store.remove(key)
Remove ==
    /\ Idle
    /\ \E key \in Keys, g \in Garbles :
        LET r == remove(inner, enc, key, g)
        IN  /\ inner' = r.inner
            /\ op' = Call("remove", key, <<>>, <<>>, <<>>, <<>>)
            /\ ret' = r.ret
            /\ dest' = <<>>
            /\ written' = IF r.ret.tag = "Some" THEN MapRemove(written, key) ELSE written
    /\ prev' = inner
    /\ UNCHANGED <<enc, alive, cred, target>>

\* store.remove_to(key, &mut dest)
RemoveTo ==
    /\ Idle
    /\ \E key \in Keys, d \in Dests, g \in Garbles :
        LET r == remove_to(inner, enc, key, d, g)
        IN  /\ inner' = r.inner
            /\ op' = Call("remove_to", key, <<>>, d, <<>>, <<>>)
            /\ ret' = r.ret
            /\ dest' = r.dest
            /\ written' = IF r.ret.tag = "Ok" /\ r.ret.n >= 1
                          THEN MapRemove(written, key) ELSE written
    /\ prev' = inner
    /\ UNCHANGED <<enc, alive, cred, target>>

\* store.remove_to_vec(key, &mut dest)
RemoveToVec ==
    /\ Idle
    /\ \E key \in Keys, d \in VecDests, g \in Garbles :
        LET r == remove_to_vec(inner, enc, key, d, g)
        IN  /\ inner' = r.inner
            /\ op' = Call("remove_to_vec", key, <<>>, d, <<>>, <<>>)
            /\ ret' = r.ret
            /\ dest' = r.dest
            /\ written' = IF r.ret.tag = "Ok" THEN MapRemove(written, key) ELSE written
    /\ prev' = inner
    /\ UNCHANGED <<enc, alive, cred, target>>

\* store.remove_key(key)
RemoveKey ==
    /\ Idle
    /\ \E key \in Keys :
        LET r == remove_key(inner, enc, key)
        IN  /\ inner' = r.inner
            /\ op' = Call("remove_key", key, <<>>, <<>>, <<>>, <<>>)
            /\ ret' = r.ret
            /\ dest' = <<>>
            /\ written' = MapRemove(written, key)
    /\ prev' = inner
    /\ UNCHANGED <<enc, alive, cred, target>>

\* let store = Store::from_inner(store.into_inner(), user, pass)
FromInner ==
    /\ Idle
    /\ \E c \in CredInputs :
        LET s == from_inner(into_inner(inner), c[1], c[2])
        IN  /\ inner' = s.inner
            /\ enc' = s.enc
            /\ alive' = ~s.panic
            /\ op' = Call("from_inner", <<>>, <<>>, <<>>, c[1], c[2])
            /\ ret' = IF s.panic THEN Panic ELSE Unit
            /\ dest' = <<>>
            /\ cred' = IF s.panic THEN cred ELSE c
    /\ prev' = inner
    /\ UNCHANGED <<written, target>>

\* The caller is done with the result and the buffer of the last call.
Forget ==
    /\ alive
    /\ op.name # "none"
    /\ op' = NoCall
    /\ ret' = Unit
    /\ dest' = <<>>
    /\ prev' = inner
    /\ UNCHANGED <<inner, enc, alive, cred, written, target>>

Next ==
    \/ Forget
    \/ Insert
    \/ Get
    \/ GetTo
    \/ GetToVec
    \/ Remove
    \/ RemoveTo
    \/ RemoveToVec
    \/ RemoveKey
    \/ FromInner

Spec == Init /\ [][Next]_vars

----------------------------------------------------------------------------
(* The Manager on its own, as enc.rs's should_encrypt_decrypt drives it: one  *)
(* buffer, sealed by a manager and handed to decrypt of the same or of         *)
(* another manager.  enc is the sealing manager's key, dest the buffer, and    *)
(* op holds the nonce input (key), the plaintext (value) and the credentials   *)
(* of the manager called.                                                      *)

\* The u128 nonce inputs: the test's 1 and 2, and the two that differ from
\* them in the most significant byte only.
NonceInputs ==
    {[i \in 1..U128_LEN |-> IF i = 1 THEN lo ELSE IF i = U128_LEN THEN hi ELSE 0] :
        lo \in {1, 2}, hi \in {0, 1}}

\* let manager = Manager::new(generate_key(user, pass))
ManagerInit ==
    /\ target \in Targets
    /\ \E c \in CredInputs :
           /\ enc = Manager_new(generate_key(c[1], c[2]))
           /\ cred = c
           /\ op = Call("new", <<>>, <<>>, <<>>, c[1], c[2])
    /\ inner = EmptyMap
    /\ prev = EmptyMap
    /\ written = EmptyMap
    /\ alive = TRUE
    /\ ret = Unit
    /\ dest = <<>>

\* manager.encrypt(nonce, &mut data) on a fresh copy of a plaintext
Encrypt ==
    /\ \E nonce \in NonceInputs : \E value \in Values :
           LET r == encrypt(enc, nonce, value)
           IN  /\ op' = Call("encrypt", nonce, value, value, cred[1], cred[2])
               /\ ret' = Bool(r.ok)
               /\ dest' = r.buf
    /\ UNCHANGED <<inner, enc, alive, prev, cred, written, target>>

\* manager.decrypt(nonce, &mut data) / manager2.decrypt(nonce, &mut data) on
\* the buffer as the last encrypt or decrypt left it
Decrypt ==
    /\ op.name \in {"encrypt", "decrypt"}
    /\ \E nonce \in NonceInputs : \E c \in CredInputs : \E g \in Garbles :
           LET r == decrypt(Manager_new(generate_key(c[1], c[2])), nonce, dest, g)
           IN  /\ op' = Call("decrypt", nonce, <<>>, dest, c[1], c[2])
               /\ ret' = IF r.ok THEN Some(Take(r.buf, r.len)) ELSE None
               /\ dest' = r.buf
    /\ UNCHANGED <<inner, enc, alive, prev, cred, written, target>>

ManagerNext ==
    \/ Encrypt
    \/ Decrypt

ManagerSpec == ManagerInit /\ [][ManagerNext]_vars

----------------------------------------------------------------------------
(* A Store built by from_inner from a map its caller made up, then driven by *)
(* the same calls.                                                           *)

\* The values a caller may put in a map it builds itself: an empty Vec, a few
\* plain bytes, and the 16 bytes that sealing the empty plaintext under the
\* key of (USER, PASS) and the entry's nonce gives.
SuppliedValues(h) ==
    {<<>>,
     Filled(MaxValLen + 1),
     seal_in_place_append_tag(generate_key(USER, PASS), get_nonce(h), <<>>)}

\* The maps given to from_inner: the empty one, and those of one entry with
\* such a value under the hashed key of b"1".
SuppliedMaps ==
    {EmptyMap} \cup
        {MapInsert(EmptyMap, to_le(xxh3_128(<<49>>)), v) :
            v \in SuppliedValues(to_le(xxh3_128(<<49>>)))}

\* let store = Store::from_inner(map, USER, PASS)
SuppliedInit ==
    /\ target \in Targets
    /\ \E m \in SuppliedMaps :
           LET s == from_inner(m, USER, PASS)
           IN  /\ inner = s.inner
               /\ enc = s.enc
               /\ alive = ~s.panic
               /\ op = Call("from_inner", <<>>, <<>>, <<>>, USER, PASS)
               /\ ret = IF s.panic THEN Panic ELSE Unit
               /\ dest = <<>>
               /\ prev = m
               /\ cred = <<USER, PASS>>
               /\ written = EmptyMap

SuppliedSpec == SuppliedInit /\ [][Next]_vars

----------------------------------------------------------------------------
(* The properties of the store. *)

\* The hashed key a logical key is stored under.
hashed(key) == to_le(xxh3_128(key))

\* The entry of m under hashed key h decrypts under manager e to value v.
Decrypts(m, e, h, v) ==
    /\ h \in DOMAIN m
    /\ LET r == decrypt(e, h, m[h], "kept")
       IN  r.ok /\ Take(r.buf, r.len) = v

\* m has an entry under h that does not authenticate under manager e.
Foreign(m, e, h) == h \in DOMAIN m /\ ~decrypt(e, h, m[h], "kept").ok

\* The sealed bytes insert(key, value) stores under manager e.
StoredBy(e, key, value) == encrypt(e, hashed(key), value).buf

\* The calls that read or remove through a decryption.
ReadCalls == {"get", "get_to", "get_to_vec"}

RemoveCalls == {"remove", "remove_to", "remove_to_vec"}

\* The last call was a remove*, and the entry of its key is gone.
Deleted == hashed(op.key) \in DOMAIN prev /\ hashed(op.key) \notin DOMAIN inner

\* What call `name` returns on map m under manager e.
Returned(name, m, e, key, d, g) ==
    CASE name = "get" -> get(m, e, key, g).ret
      [] name = "get_to" -> get_to(m, e, key, d, g).ret
      [] name = "get_to_vec" -> get_to_vec(m, e, key, d, g).ret
      [] name = "remove" -> remove(m, e, key, g).ret
      [] name = "remove_to" -> remove_to(m, e, key, d, g).ret
      [] name = "remove_to_vec" -> remove_to_vec(m, e, key, d, g).ret

\* C1: round trip.  Whatever the store held, once insert(K, V) has returned,
\* get(K) on that same store returns exactly V.
C1_RoundTrip ==
    (op.name = "insert" /\ ret.tag # "panic") =>
        \A g \in Garbles : get(inner, enc, op.key, g).ret = Some(op.value)

\* insert(K, V) of a value of the greatest length has returned on a store that
\* already held entries, and get(K) returns V.
C1_Witness ==
    /\ op.name = "insert"
    /\ ret.tag # "panic"
    /\ Len(op.value) = MaxValLen
    /\ len(prev) > 0
    /\ get(inner, enc, op.key, "kept").ret = Some(op.value)

\* C2: overwrite.  When insert(K, V2) returns on a store whose entry for K is
\* the one insert(K, V1) wrote under the same credentials, it returns V1,
\* get(K) is V2 afterwards, and len() is what it was.
C2_Overwrite ==
    \A v1 \in Values :
        (/\ op.name = "insert"
         /\ ret.tag # "panic"
         /\ Len(v1) > 0
         /\ hashed(op.key) \in DOMAIN prev
         /\ prev[hashed(op.key)] = StoredBy(enc, op.key, v1))
        => /\ ret = Some(v1)
           /\ \A g \in Garbles : get(inner, enc, op.key, g).ret = Some(op.value)
           /\ len(inner) = len(prev)

\* insert(K, V2) has overwritten a different value V1 of the same credentials.
C2_Witness ==
    /\ op.name = "insert"
    /\ ret.tag = "Some"
    /\ ret.val # op.value
    /\ prev[hashed(op.key)] = StoredBy(enc, op.key, ret.val)
    /\ get(inner, enc, op.key, "kept").ret = Some(op.value)
    /\ len(inner) = len(prev)

\* C3: wrong-credential opacity.  When the map has been exported and a store
\* reconstructed from it, then for every key whose value was inserted under
\* a user id or a passphrase other than the reconstructed store's, get
\* returns absent, remove returns absent and deletes nothing; and len() is
\* what it was before the export.
C3_WrongCredentialOpacity ==
    (op.name = "from_inner" /\ ret.tag # "panic") =>
        /\ len(inner) = len(prev)
        /\ \A key \in DOMAIN written :
               written[key].cred # <<op.user, op.pass>> =>
                   \A g \in Garbles :
                       /\ get(inner, enc, key, g).ret = None
                       /\ remove(inner, enc, key, g).ret = None
                       /\ remove(inner, enc, key, g).inner = inner

\* A store holding both keys, inserted under (USER, PASS), has been
\* reconstructed under another pair, where get and remove report absence.
C3_Witness ==
    /\ op.name = "from_inner"
    /\ ret.tag # "panic"
    /\ <<op.user, op.pass>> # <<USER, PASS>>
    /\ DOMAIN written = Keys
    /\ \A key \in Keys : written[key].cred = <<USER, PASS>>
    /\ len(inner) = Cardinality(Keys)
    /\ \A key \in Keys : get(inner, enc, key, "kept").ret = None
    /\ \A key \in Keys : remove(inner, enc, key, "kept").ret = None

\* C4: no mutation on failure.  A get, get_to, get_to_vec, remove, remove_to
\* or remove_to_vec that reports absence (None or Err) leaves the map as it
\* was; and in every state, so also after any number of such calls under
\* other credentials, a store reconstructed from the map with the credentials
\* a value was inserted under returns that value from get.
C4_NoMutationOnFailure ==
    /\ (op.name \in ReadCalls \cup RemoveCalls /\ ret.tag \in {"None", "Err"})
           => inner = prev
    /\ \A key \in DOMAIN written :
           LET w == written[key]
               s == from_inner(into_inner(inner), w.cred[1], w.cred[2])
           IN  /\ ~s.panic
               /\ \A g \in Garbles : get(s.inner, s.enc, key, g).ret = Some(w.value)

\* remove (and remove_to, into a large enough buffer) has failed on an entry
\* of other credentials, which is still in the map.
C4_Witness ==
    /\ op.name \in {"remove", "remove_to"}
    /\ ret.tag \in {"None", "Err"}
    /\ op.key \in DOMAIN written
    /\ written[op.key].cred # cred
    /\ Foreign(inner, enc, hashed(op.key))
    /\ inner = prev

\* C5: anti-oracle.  On every read and remove path and for every destination,
\* a key whose entry does not authenticate under the current credentials gets
\* the result the same call gets on the same map without that entry.
C5_AntiOracle ==
    (op.name \in ReadCalls \cup RemoveCalls /\ Foreign(prev, enc, hashed(op.key))) =>
        \A g \in Garbles :
            ret = Returned(op.name, MapRemove(prev, hashed(op.key)), enc,
                           op.key, op.dest, g)

\* C6: get_to and remove_to return Err whenever the key has no entry or its
\* entry does not decrypt under the store's credentials, and Ok(n) only for
\* an entry that does, n being its plaintext's length or 0.
C6_ErrUnlessReadable ==
    op.name \in {"get_to", "remove_to"} =>
        LET h == hashed(op.key)
            readable == h \in DOMAIN prev /\ decrypt(enc, h, prev[h], "kept").ok
        IN  /\ ~readable => ret = Err
            /\ ret.tag = "Ok" =>
                   /\ readable
                   /\ ret.n \in {0, decrypt(enc, h, prev[h], "kept").len}

C8_SuccessfulRemove ==
    \A v \in Values :
        LET h == hashed(op.key)
        IN  (/\ op.name \in RemoveCalls
             /\ Decrypts(prev, enc, h, v)
             /\ op.name = "remove_to" => Len(op.dest) >= Len(prev[h]))
            => /\ ret = IF op.name = "remove" THEN Some(v) ELSE Ok(Len(v))
               /\ op.name # "remove" => Take(dest, Len(v)) = v
               /\ DOMAIN inner = (DOMAIN prev) \ {h}
               /\ \A x \in DOMAIN inner : inner[x] = prev[x]
               /\ len(inner) = len(prev) - 1
               /\ \A g \in Garbles : get(inner, enc, op.key, g).ret = None

\* remove_to has returned the length of a readable value of the greatest
\* length and deleted its entry, the other key's entry staying.
C8_Witness ==
    /\ op.name = "remove_to"
    /\ ret = Ok(MaxValLen)
    /\ len(prev) = Cardinality(Keys)
    /\ len(inner) = len(prev) - 1
    /\ Deleted

\* C9: removal is tied to the reported result.  remove_to deletes the entry
\* exactly when it returns Ok(n) with n >= 1, remove_to_vec exactly when it
\* returns Ok, remove exactly when it returns a value; in every other outcome
\* the map is as it was.
C9_RemovalTiedToResult ==
    /\ op.name = "remove_to" => (Deleted <=> (ret.tag = "Ok" /\ ret.n >= 1))
    /\ op.name = "remove_to_vec" => (Deleted <=> ret.tag = "Ok")
    /\ op.name = "remove" => (Deleted <=> ret.tag = "Some")
    /\ (op.name \in RemoveCalls /\ ~Deleted) => inner = prev

\* remove has returned a value and its entry is gone.
C9_Witness ==
    /\ op.name = "remove"
    /\ ret.tag = "Some"
    /\ Deleted

\* C10: remove_key(K) removes K's entry whether or not it decrypts, returns
\* true exactly when there was one, leaves every other entry as it was, and
\* does the same under every manager key (it decrypts nothing).
C10_RemoveKey ==
    op.name = "remove_key" =>
        LET h == hashed(op.key)
        IN  /\ DOMAIN inner = (DOMAIN prev) \ {h}
            /\ \A x \in DOMAIN inner : inner[x] = prev[x]
            /\ ret = Bool(h \in DOMAIN prev)
            /\ \A c \in CredInputs :
                   LET r == remove_key(prev, generate_key(c[1], c[2]), op.key)
                   IN  r.inner = inner /\ r.ret = ret

\* remove_key has returned true for an entry of other credentials and removed
\* it, the other key's entry staying.
C10_Witness ==
    /\ op.name = "remove_key"
    /\ ret = Bool(TRUE)
    /\ Foreign(prev, enc, hashed(op.key))
    /\ hashed(op.key) \notin DOMAIN inner
    /\ len(inner) = 1

\* C11: insert(K, V) on a key whose stored bytes do not open under the current
\* credentials returns None, puts V sealed under the current key in their
\* place, leaves len() as it was, and a following get(K) returns V, as does a
\* following remove_to(K) into a destination that holds the sealed value.
C11_InsertOverForeign ==
    (op.name = "insert" /\ ret.tag # "panic" /\ Foreign(prev, enc, hashed(op.key))) =>
        /\ ret = None
        /\ inner = MapInsert(prev, hashed(op.key), StoredBy(enc, op.key, op.value))
        /\ len(inner) = len(prev)
        /\ \A g \in Garbles :
               /\ get(inner, enc, op.key, g).ret = Some(op.value)
               /\ \A d \in Dests :
                      Len(d) >= Len(op.value) + TAG_LEN =>
                          LET r == remove_to(inner, enc, op.key, d, g)
                          IN  /\ r.ret = Ok(Len(op.value))
                              /\ Take(r.dest, Len(op.value)) = op.value

\* insert has returned None over an entry written under other credentials,
\* next to a second entry, and the entry now opens to the inserted value.
C11_Witness ==
    /\ op.name = "insert"
    /\ ret = None
    /\ Foreign(prev, enc, hashed(op.key))
    /\ len(prev) = 2
    /\ Decrypts(inner, enc, hashed(op.key), op.value)

\* C12: export and reconstruction.  from_inner(map, user, pass) stores the
\* supplied map as it is, so into_inner gives it back entry for entry; after
\* a reconstruction with the credentials the store already had, every get
\* returns what it returned before the export; and every value inserted under
\* the credentials of the reconstruction reads back, whatever credentials the
\* map went through in between.
C12_ExportReconstruct ==
    [][(op'.name = "from_inner" /\ ret'.tag # "panic") =>
          /\ into_inner(inner') = into_inner(inner)
          /\ <<op'.user, op'.pass>> = cred =>
                 \A key \in Keys : \A g \in Garbles :
                     get(inner', enc', key, g).ret = get(inner, enc, key, g).ret
          /\ \A key \in DOMAIN written' :
                 written'[key].cred = <<op'.user, op'.pass>> =>
                     \A g \in Garbles :
                         get(inner', enc', key, g).ret = Some(written'[key].value)
      ]_vars

\* A map of two entries, written under two credential pairs, has been
\* reconstructed with one of the pairs, and the entry of that pair reads back.
C12_Witness ==
    /\ op.name = "from_inner"
    /\ ret.tag # "panic"
    /\ len(inner) = 2
    /\ inner = prev
    /\ \E k1 \in DOMAIN written : \E k2 \in DOMAIN written :
           /\ written[k1].cred = cred
           /\ written[k2].cred # cred
           /\ get(inner, enc, k1, "kept").ret = Some(written[k1].value)

\* C13: the store invariant as stated.  In every state of a live store, every
\* value of the map is what sealing some plaintext under the manager's current
\* key, with the nonce of the hashed key it is stored under, produces.
C13_SealedUnderCurrentKey ==
    alive =>
        \A h \in DOMAIN inner :
            \E i \in 1..Len(inner[h]) :
                inner[h] = seal_in_place_append_tag(enc, get_nonce(h), inner[h][i].pt)

\* C13, amended: in every state of a store that began with new, every value of
\* the map is what sealing the inserted value produced under the key of the
\* credentials the store had at that insert, with the nonce of the hashed key
\* it is stored under; a reconstruction changes the manager's key and no entry.
C13_SealedUnderInsertingKey ==
    /\ DOMAIN inner = {hashed(key) : key \in DOMAIN written}
    /\ \A key \in DOMAIN written :
           LET w == written[key]
           IN  inner[hashed(key)] =
                   seal_in_place_append_tag(generate_key(w.cred[1], w.cred[2]),
                                            get_nonce(hashed(key)), w.value)

\* A live store holds an entry sealed under its manager's key next to one
\* sealed under the key of other credentials.
C13_Witness ==
    /\ alive
    /\ \E h1 \in DOMAIN inner : \E h2 \in DOMAIN inner :
           /\ inner[h1][1].k = enc
           /\ inner[h2][1].k # enc
           /\ inner[h2][1].n = get_nonce(h2)

\* Two nonce inputs give one nonce: they agree in the twelve bytes that come
\* first in memory, the low ones on a little-endian machine and the high ones
\* on a big-endian one.
SameNonce(n1, n2) ==
    IF target = "little"
    THEN \A i \in 1..NONCE_LEN : n1[i] = n2[i]
    ELSE \A i \in (U128_LEN - NONCE_LEN + 1)..U128_LEN : n1[i] = n2[i]

\* C14: the manager, as stated.  A buffer sealed by encrypt(n1, .) under key k1
\* decrypts under k1 and n1 to the plaintext, and decrypt under any other
\* nonce input n2 # n1, or under any other key, returns None.
C14_AnyOtherNonceInput ==
    [][(op.name = "encrypt" /\ op'.name = "decrypt") =>
          LET k2 == Manager_new(generate_key(op'.user, op'.pass))
          IN  ret' = IF k2 = enc /\ op'.key = op.key THEN Some(op.value) ELSE None
      ]_vars

\* C14, amended: the buffer decrypts to the plaintext under k1 and every nonce
\* input that agrees with n1 in the twelve bytes get_nonce keeps, n1 itself
\* among them; decrypt under a nonce input that differs from n1 in one of these
\* bytes, or under any other key, returns None.
C14_OtherNonce ==
    [][(op.name = "encrypt" /\ op'.name = "decrypt") =>
          LET k2 == Manager_new(generate_key(op'.user, op'.pass))
          IN  ret' = IF k2 = enc /\ SameNonce(op'.key, op.key)
                     THEN Some(op.value)
                     ELSE None
      ]_vars

\* A buffer sealed from a plaintext of the greatest length has been decrypted
\* to that plaintext by the manager that sealed it.
C14_Witness ==
    /\ op.name = "decrypt"
    /\ Manager_new(generate_key(op.user, op.pass)) = enc
    /\ Len(op.dest) = MaxValLen + TAG_LEN
    /\ get_nonce(op.key) = op.dest[1].n
    /\ ret = Some(op.dest[1].pt)

\* C15: a violated precondition panics before anything changes.  new and
\* from_inner with an empty user or an empty passphrase panic, derive no key
\* and leave no store to call; insert with an empty value panics with every
\* entry of the map as it was, none added and none replaced.
C15_PanicBeforeChange ==
    /\ (op.name \in {"new", "from_inner"} /\ (Len(op.user) = 0 \/ Len(op.pass) = 0)) =>
           /\ ret = Panic
           /\ ~alive
           /\ enc = NoKey
           /\ ~(ENABLED Next)
    /\ (op.name = "insert" /\ Len(op.value) = 0) =>
           /\ ret = Panic
           /\ ~alive
           /\ inner = prev
           /\ ~(ENABLED Next)

\* insert of an empty value has panicked on a store that holds a value under
\* that key, and the value is still there.
C15_Witness ==
    /\ op.name = "insert"
    /\ Len(op.value) = 0
    /\ ret = Panic
    /\ hashed(op.key) \in DOMAIN prev
    /\ Decrypts(inner, enc, hashed(op.key), written[op.key].value)

C17_NeverEmpty ==
    /\ \A h \in DOMAIN inner : Len(inner[h]) >= TAG_LEN + 1
    /\ (op.name \in {"get_to", "remove_to"} /\ ret = Ok(0)) =>
           /\ hashed(op.key) \in DOMAIN prev
           /\ Len(op.dest) < Len(prev[hashed(op.key)])

\* C17, amended: the values insert stored are never empty.  In every state of
\* every store, every value that insert stored is at least 17 bytes long, and
\* Ok(0) from get_to / remove_to for the key of such a value means that the
\* destination is too short for it; the entries of a caller's own map, which
\* from_inner takes as they are, are not covered.
C17_InsertedNeverEmpty ==
    /\ \A key \in DOMAIN written :
           /\ hashed(key) \in DOMAIN inner
           /\ Len(inner[hashed(key)]) >= TAG_LEN + 1
    /\ (op.name \in {"get_to", "remove_to"} /\ ret = Ok(0) /\ op.key \in DOMAIN written) =>
           /\ hashed(op.key) \in DOMAIN prev
           /\ Len(op.dest) < Len(prev[hashed(op.key)])

\* remove_to has returned Ok(0) for a value that insert stored, in a map that
\* also holds an entry its caller supplied.
C17_Witness ==
    /\ op.name = "remove_to"
    /\ ret = Ok(0)
    /\ op.key \in DOMAIN written
    /\ \E h \in DOMAIN inner : Len(inner[h]) < TAG_LEN + 1

\* C18: the nonce on overwrite.  Every byte insert(K, V) stores is sealed under
\* the manager's key and a nonce that is the first twelve bytes of K's digest,
\* whatever V, the map and the machine are; so an insert over an entry that was
\* sealed under the same key seals under the very same key and nonce again,
\* also when the value differs.
C18_NonceReuse ==
    (op.name = "insert" /\ ret.tag # "panic") =>
        LET h == hashed(op.key)
        IN  /\ \A i \in 1..Len(inner[h]) :
                   /\ inner[h][i].k = enc
                   /\ inner[h][i].n = Take(xxh3_128(op.key), NONCE_LEN)
            /\ (h \in DOMAIN prev /\ prev[h][1].k = enc) =>
                   \A i \in 1..Len(inner[h]) : inner[h][i].n = prev[h][1].n

\* insert has replaced a value by another value of another length, both sealed
\* under the same key and the same nonce.
C18_Witness ==
    /\ op.name = "insert"
    /\ ret.tag = "Some"
    /\ Len(ret.val) # Len(op.value)
    /\ prev[hashed(op.key)][1].k = inner[hashed(op.key)][1].k
    /\ prev[hashed(op.key)][1].n = inner[hashed(op.key)][1].n
    /\ prev[hashed(op.key)][1].pt # inner[hashed(op.key)][1].pt

\* The calls that read into a destination of the caller.
DestCalls == {"get_to", "get_to_vec", "remove_to", "remove_to_vec"}

\* C19: the destination on failure, as stated.  A get_to, get_to_vec,
\* remove_to or remove_to_vec that returns Err leaves dest with the bytes and
\* the length it had before the call.
C19_DestUntouchedOnErr ==
    (op.name \in DestCalls /\ ret = Err) => dest = op.dest

\* C19, amended: such a call that returns Err because the key has no entry
\* leaves dest as it was; one that returns Err because the entry does not
\* authenticate has copied the stored bytes into dest before decrypting them:
\* a fixed dest keeps its length and its bytes behind the stored length, a
\* growable dest has the stored length, and the bytes in front are whatever
\* the failed decryption left.
C19_DestOnErr ==
    (op.name \in DestCalls /\ ret = Err) =>
        LET h == hashed(op.key)
        IN  IF h \notin DOMAIN prev
            THEN dest = op.dest
            ELSE /\ Foreign(prev, enc, h)
                 /\ IF op.name \in {"get_to", "remove_to"}
                    THEN /\ Len(op.dest) >= Len(prev[h])
                         /\ Len(dest) = Len(op.dest)
                         /\ Skip(dest, Len(prev[h])) = Skip(op.dest, Len(prev[h]))
                    ELSE Len(dest) = Len(prev[h])

\* get_to_vec has returned Err for an entry of other credentials, and the
\* caller's three stale bytes have given way to the bytes of the entry.
C19_Witness ==
    /\ op.name = "get_to_vec"
    /\ ret = Err
    /\ Foreign(prev, enc, hashed(op.key))
    /\ Len(op.dest) = MaxValLen + 1
    /\ Len(dest) = Len(prev[hashed(op.key)])
    /\ dest # op.dest

\* The credential pairs a store can be constructed from.
Creds == {c \in CredInputs : Len(c[1]) # 0 /\ Len(c[2]) # 0}

\* C20: each entry belongs to the credentials that inserted it.  In every
\* state of a live store and for every credential pair C, get(K) under C
\* returns V exactly when K has an entry and the last insert of K was
\* insert(K, V) under C, and returns None otherwise; len() is the number of
\* logical keys that have an entry, whoever inserted them.
C20_EntryOwnership ==
    alive =>
        /\ \A key \in Keys : \A c \in Creds : \A g \in Garbles :
               get(inner, Manager_new(generate_key(c[1], c[2])), key, g).ret =
                   IF key \in DOMAIN written /\ written[key].cred = c
                   THEN Some(written[key].value)
                   ELSE None
        /\ \A key \in Keys : key \in DOMAIN written <=> hashed(key) \in DOMAIN inner
        /\ len(inner) = Cardinality(DOMAIN written)

\* get under the store's credentials has returned None for a key that other
\* credentials inserted, while the other key's entry belongs to the store's
\* credentials, and len() is 2.
C20_Witness ==
    /\ op.name = "get"
    /\ ret = None
    /\ op.key \in DOMAIN written
    /\ written[op.key].cred # cred
    /\ \E key \in DOMAIN written : written[key].cred = cred
    /\ len(inner) = 2

====
